---------------------------- MODULE Spec2Model ----------------------------
(*
  DbLog (src/dblog/__init__.py): a buffered logger.  Producer threads call
  update_item, which appends an observation to the item's list in _buffer;
  the scheduler thread calls _dump every cycle and the shutdown thread calls
  stop, which runs _dump once more and closes the connection.

  Threads are interleaved at the granularity at which they can observe each
  other: the load of the item's list and the append in update_item are two
  steps, and _dump is split at every point where another thread's step can
  change what it does next (lock acquires, the len test, each iteration of
  the insert loop, the read of tuples[-1], the commit, the release).

  A Python list is an object with identity.  The list held by _buffer[item]
  is written in buffer[item]; the list bound to the local `tuples` of a
  running _dump is written in tuples[f]; a producer that has loaded a list
  holds, in oref, the place that list is now: "buf" while it is still the
  item's buffer, the flusher's name once that flusher has drained it, and
  "orphan" once nothing reads it any more.

  The database is one DB-API connection: item_tbl/log_tbl are the tables as
  the connection sees them (its open transaction included), item_db/log_db
  what has been committed.  A backend call either succeeds or raises; one
  that raises has no effect, and the open transaction stays open (the code
  never calls rollback).
*)
EXTENDS Integers, Sequences, FiniteSets, TLC

VARIABLES
    ctor,        \* position of __init__: "style", "connect", "cursor", "setup",
                 \* "finish", "done" (returned), "raised" (left by an exception)
    setup_i,     \* number of schema statements __init__ has attempted
    setup_err,   \* number of them that raised, while __init__ runs
    style,       \* dbapi.paramstyle
    connected,   \* self.connected
    fdb,         \* self._fdb: "unset" (attribute missing), "open", "closed"
    has_lock,    \* the attribute self._fdb_lock exists
    fdb_lock,    \* holder of self._fdb_lock, or "free"
    buffer_lock, \* holder of self._buffer_lock, or "free"
    scheduled,   \* _dump is registered with the scheduler
    buffer,      \* self._buffer: item -> list of observations
    now,         \* host clock, microseconds since the epoch
    nObs,        \* number of update_item calls started
    opc,         \* producer -> "idle" | "loaded"
    oitem,       \* producer -> item of its running update_item
    oref,        \* producer -> where the list it loaded is now
    pc,          \* flusher -> position in _dump / stop
    it,          \* flusher -> index in Items of the for loop of _dump
    tuples,      \* flusher -> the list bound to `tuples`
    k,           \* flusher -> position of the iterator of `for t in tuples`
    id,          \* flusher -> the local `id`
    err,         \* flusher -> the current per-item sequence has raised
    item_tbl,    \* table item as seen by the connection
    log_tbl,     \* table log as seen by the connection
    item_db,     \* table item, committed
    log_db,      \* table log, committed
    accepted,    \* history: uids of the observations whose update_item returned
    drained,     \* history: flusher -> contents of the list when it was drained
    concurrent,  \* history: flusher -> an update_item appended for its item since the drain
    visited,     \* history: flusher -> items whose turn in the for loop has come
    raisedIn,    \* history: uids drained by a per-item sequence that raised
    fmt,         \* a call of _format: its argument, the local stmt and cnt, its position
    clk          \* calls of _timestamp: the host time and the stamp of the last two

vars == << ctor, setup_i, setup_err, fmt, clk, style, connected, fdb, has_lock, fdb_lock, buffer_lock,
           scheduled, buffer, now, nObs, opc, oitem, oref, pc, it, tuples, k, id,
           err, item_tbl, log_tbl, item_db, log_db, accepted, drained, concurrent,
           visited, raisedIn >>

ctorVars == << ctor, setup_i, setup_err, style, connected, fdb, has_lock, scheduled >>
pureVars == << fmt, clk >>
obsVars  == << now, nObs, opc, oitem, oref, accepted >>
dbVars   == << item_tbl, log_tbl, item_db, log_db >>

(* ------------------------------ bounds -------------------------------- *)

\* update_item calls over a run
MaxObs == 2

\* longest statement handed to _format
MaxStmtLen == 10

\* last whole second of the host times handed to _timestamp
MaxSecs == 2

(* ----------------------------- constants ------------------------------ *)

\* None in a value column.  Values are written as they are stored: a float,
\* a bool or a string, each as its text.
NULL == "NULL"

\* the items whose conf has 'dblog' (parse_item), in the order of the dict
Items == << "a", "b" >>
ItemSet == { Items[i] : i \in 1..Len(Items) }

\* item.type() of each item
ItemType == [ n \in ItemSet |-> IF n = "a" THEN "num" ELSE "str" ]

Producers == { "p1" }
Flushers == { "timer", "stop" }

\* DbLog.styles
styles == { "qmark", "format", "numeric" }
\* paramstyles a DB-API driver may declare, one of them not in DbLog.styles
DriverStyles == { "qmark", "pyformat" }

\* DbLog._setup has four statements
NumSetup == 4

\* host clock at construction and its advance between two update_item calls
StartMicros == 999500
TickMicros == 500

(* --------------------------- pure functions --------------------------- *)

timestampRounded(us) == (us \div 1000000) * 1000 + (((us % 1000000) + 500) \div 1000)

\* _timestamp: whole seconds * 1000 + int(microsecond / 1000)
timestamp(us) == (us \div 1000000) * 1000 + ((us % 1000000) \div 1000)

\* the characters of a statement: the placeholder and any other character
StmtChars == { "?", "x" }

\* the statements handed to _format, as sequences of characters
Stmts == UNION { [ 1..n -> StmtChars ] : n \in 0..MaxStmtLen }

\* the microsecond parts of the host times handed to _timestamp
MicroParts == { 0, 1, 999, 1000, 1001, 499999, 500000, 999000, 999999 }

\* '?' in stmt
Contains(s, c) == \E i \in 1..Len(s) : s[i] = c

FirstIndex(s, c) == CHOOSE i \in 1..Len(s) : s[i] = c /\ \A j \in 1..(i - 1) : s[j] # c

ReplaceAt(s, i, new) == SubSeq(s, 1, i - 1) \o new \o SubSeq(s, i + 1, Len(s))

ReplaceLast(s, c, new) ==
    ReplaceAt(s, CHOOSE i \in 1..Len(s) : s[i] = c /\ \A j \in (i + 1)..Len(s) : s[j] # c,
              new)

\* str.replace(old, new, 1): the first occurrence
ReplaceFirst(s, c, new) == ReplaceAt(s, FirstIndex(s, c), new)

\* str.replace(old, new): every occurrence
RECURSIVE ReplaceAll(_, _, _)
ReplaceAll(s, c, new) ==
    IF s = << >> THEN << >>
    ELSE (IF Head(s) = c THEN new ELSE << Head(s) >>) \o ReplaceAll(Tail(s), c, new)

DigitChar == << "0", "1", "2", "3", "4", "5", "6", "7", "8", "9" >>

\* str(cnt): the decimal digits
RECURSIVE Str(_)
Str(n) == IF n < 10 THEN << DigitChar[n + 1] >>
          ELSE Str(n \div 10) \o << DigitChar[(n % 10) + 1] >>

\* update_item, lines 116-127: the three value columns by item.type()
Classify(type, uid, t) ==
    IF type = "num"
      THEN [ uid |-> uid, time |-> t, val_str |-> NULL, val_num |-> "21.5", val_bool |-> NULL ]
    ELSE IF type = "bool"
      THEN [ uid |-> uid, time |-> t, val_str |-> NULL, val_num |-> NULL, val_bool |-> "True" ]
      ELSE [ uid |-> uid, time |-> t, val_str |-> "on", val_num |-> NULL, val_bool |-> NULL ]

\* A fetched row (id,) is the one-element sequence << id >>; None, as the
\* result of fetchone and as the value of MAX over no rows, is << >>.
None == << >>

\* "SELECT id FROM item where name = ?" + fetchone: first matching row or None
SelectId(tbl, name) ==
    IF \E i \in 1..Len(tbl) : tbl[i].name = name
      THEN LET i == CHOOSE i \in 1..Len(tbl) :
                      /\ tbl[i].name = name
                      /\ \A j \in 1..(i-1) : tbl[j].name # name
           IN  << tbl[i].id >>
      ELSE None

\* "SELECT MAX(id) FROM item" + fetchone: the maximum, None over no rows
SelectMaxId(tbl) ==
    IF tbl = << >> THEN None
    ELSE << CHOOSE m \in { tbl[i].id : i \in 1..Len(tbl) } :
                \A i \in 1..Len(tbl) : tbl[i].id <= m >>

NotFoundAlways(row) == TRUE

\* line 151: if id == None
NotFound(row) == row = None

NextIdSame(maxid) == IF maxid = None THEN 1 ELSE maxid[1]

\* line 155: 1 if id[0] == None else id[0]+1
NextId(maxid) == IF maxid = None THEN 1 ELSE maxid[1] + 1

\* "INSERT INTO item(id, name) VALUES(?,?)": the columns time, val_str,
\* val_num, val_bool of the new row (its snapshot, snap) are all NULL: << >>
InsertItem(tbl, newid, name) ==
    Append(tbl, [ id |-> newid, name |-> name, snap |-> << >> ])

LogRowNoId(t, rid) ==
    [ uid |-> t.uid, time |-> t.time, item_id |-> 0,
      val_str |-> t.val_str, val_num |-> t.val_num, val_bool |-> t.val_bool ]

\* lines 164-167: _insert = (t[0], id, t[1], t[2], t[3])
LogRow(t, rid) ==
    [ uid |-> t.uid, time |-> t.time, item_id |-> rid,
      val_str |-> t.val_str, val_num |-> t.val_num, val_bool |-> t.val_bool ]

\* line 169: t = tuples[-1]
SnapshotOf(tup) == tup[Len(tup)]

\* "UPDATE item SET time = ?, val_str = ?, val_num = ?, val_bool = ? WHERE id = ?"
UpdateItem(tbl, t, rid) ==
    [ i \in 1..Len(tbl) |->
        IF tbl[i].id = rid
          THEN [ tbl[i] EXCEPT !.snap = << [ time |-> t.time, val_str |-> t.val_str,
                                             val_num |-> t.val_num,
                                             val_bool |-> t.val_bool ] >> ]
          ELSE tbl[i] ]

CanAcquireAlways(holder) == TRUE

\* threading.Lock.acquire() (lines 73, 106, 140, 147): blocks until the lock
\* is free
CanAcquire(holder) == holder = "free"

ConnectedKept(c) == c

\* line 112: self.connected = False
ConnectedAfterStop(c) == FALSE

AfterSetupStmtRaise(ok) == IF ok THEN "setup" ELSE "raised"

\* lines 85-88: a schema statement that raises is logged and the loop goes on
AfterSetupStmt(ok) == "setup"

KeepBuffer(buf, item) == buf

\* line 142: self._buffer[item] = []
ClearBuffer(buf, item) == [ buf EXCEPT ![item] = << >> ]

(* ------------------------------- Init --------------------------------- *)

\* lines 49-50 and the threads before their first step; the database is new
InitRest ==
    /\ fdb_lock = "free"
    /\ buffer_lock = "free"
    /\ buffer = [ n \in ItemSet |-> << >> ]
    /\ now = StartMicros
    /\ nObs = 0
    /\ opc = [ p \in Producers |-> "idle" ]
    /\ oitem = [ p \in Producers |-> Items[1] ]
    /\ oref = [ p \in Producers |-> "buf" ]
    /\ pc = [ f \in Flushers |-> "idle" ]
    /\ it = [ f \in Flushers |-> 1 ]
    /\ tuples = [ f \in Flushers |-> << >> ]
    /\ k = [ f \in Flushers |-> 1 ]
    /\ id = [ f \in Flushers |-> None ]
    /\ err = [ f \in Flushers |-> FALSE ]
    /\ item_tbl = << >>
    /\ log_tbl = << >>
    /\ item_db = << >>
    /\ log_db = << >>
    /\ accepted = { }
    /\ drained = [ f \in Flushers |-> << >> ]
    /\ concurrent = [ f \in Flushers |-> FALSE ]
    /\ visited = [ f \in Flushers |-> { } ]
    /\ raisedIn = { }

\* no call of _format or _timestamp is followed
PureIdle ==
    /\ fmt = [ arg |-> << >>, stmt |-> << >>, cnt |-> 1, pc |-> "idle" ]
    /\ clk = << >>

\* lines 45-66: __init__ before the style test
Init ==
    /\ ctor = "style"
    /\ setup_i = 0
    /\ setup_err = 0
    /\ style \in DriverStyles
    /\ connected = FALSE
    /\ fdb = "unset"
    /\ has_lock = FALSE
    /\ scheduled = FALSE
    /\ InitRest
    /\ PureIdle


(* ----------------------------- __init__ ------------------------------- *)

\* lines 66-73: the style test; the connection lock is created and acquired
\* only past it
CtorStyle ==
    /\ UNCHANGED pureVars
    /\ ctor = "style"
    /\ IF style \notin styles
         THEN /\ ctor' = "done"
              /\ UNCHANGED << has_lock, fdb_lock >>
         ELSE /\ has_lock' = TRUE
              /\ fdb_lock' = "ctor"
              /\ ctor' = "connect"
    /\ UNCHANGED << setup_i, setup_err, style, connected, fdb, scheduled, buffer_lock, buffer,
                    pc, it, tuples, k, id, err, drained, concurrent, visited,
                    raisedIn >>
    /\ UNCHANGED << obsVars, dbVars >>

\* lines 74-80: dbapi.connect succeeds or raises
CtorConnect ==
    /\ UNCHANGED pureVars
    /\ ctor = "connect"
    /\ \E ok \in BOOLEAN :
         IF ok
           THEN /\ fdb' = "open"
                /\ connected' = TRUE
                /\ ctor' = "cursor"
                /\ UNCHANGED fdb_lock
           ELSE /\ fdb_lock' = "free"
                /\ ctor' = "done"
                /\ UNCHANGED << fdb, connected >>
    /\ UNCHANGED << setup_i, setup_err, style, has_lock, scheduled, buffer_lock, buffer,
                    pc, it, tuples, k, id, err, drained, concurrent, visited,
                    raisedIn >>
    /\ UNCHANGED << obsVars, dbVars >>

\* line 83: cur = self._fdb.cursor(), outside any try: when it raises,
\* __init__ is left by the exception
CtorCursor ==
    /\ UNCHANGED pureVars
    /\ ctor = "cursor"
    /\ \E ok \in BOOLEAN : ctor' = IF ok THEN "setup" ELSE "raised"
    /\ UNCHANGED << setup_i, setup_err, style, connected, fdb, has_lock, fdb_lock,
                    scheduled, buffer_lock, buffer, pc, it, tuples, k, id, err,
                    drained, concurrent, visited, raisedIn >>
    /\ UNCHANGED << obsVars, dbVars >>

\* lines 84-88: one schema statement, executed or raising (caught and logged)
CtorSetup ==
    /\ UNCHANGED pureVars
    /\ ctor = "setup"
    /\ IF setup_i < NumSetup
         THEN \E ok \in BOOLEAN :
                /\ setup_i' = setup_i + 1
                /\ setup_err' = IF ok THEN setup_err ELSE setup_err + 1
                /\ ctor' = AfterSetupStmt(ok)
         ELSE /\ ctor' = "finish"
              /\ UNCHANGED << setup_i, setup_err >>
    /\ UNCHANGED << style, connected, fdb, has_lock, fdb_lock, scheduled,
                    buffer_lock, buffer, pc, it, tuples, k, id, err, drained,
                    concurrent, visited, raisedIn >>
    /\ UNCHANGED << obsVars, dbVars >>

\* lines 89-91: cur.close() (outside any try), release of the lock and
\* registration of _dump with the scheduler
CtorFinish ==
    /\ UNCHANGED pureVars
    /\ ctor = "finish"
    /\ \E ok \in BOOLEAN :
         IF ok
           THEN /\ fdb_lock' = "free"
                /\ scheduled' = TRUE
                /\ ctor' = "done"
                /\ setup_err' = 0
           ELSE /\ ctor' = "raised"
                /\ UNCHANGED << fdb_lock, scheduled, setup_err >>
    /\ UNCHANGED << setup_i, style, connected, fdb, has_lock, buffer_lock, buffer,
                    pc, it, tuples, k, id, err, drained, concurrent, visited,
                    raisedIn >>
    /\ UNCHANGED << obsVars, dbVars >>

(* ---------------------------- update_item ----------------------------- *)

Uids(seq) == { seq[i].uid : i \in 1..Len(seq) }

\* the positions of _dump between the drain of an item and the release
InItemSeq(f) == pc[f] \in { "len", "lock_fdb", "resolve", "insert", "update",
                            "commit", "release" }

\* line 129, first half: self._buffer[item] is evaluated (no lock is taken)
ObsLoad(p) ==
    /\ UNCHANGED pureVars
    /\ ctor = "done"
    /\ opc[p] = "idle"
    /\ nObs < MaxObs
    /\ \E n \in ItemSet : oitem' = [ oitem EXCEPT ![p] = n ]
    /\ oref' = [ oref EXCEPT ![p] = "buf" ]
    /\ opc' = [ opc EXCEPT ![p] = "loaded" ]
    /\ nObs' = nObs + 1
    /\ UNCHANGED << now, accepted, ctorVars, dbVars, fdb_lock, buffer_lock, buffer,
                    pc, it, tuples, k, id, err, drained, concurrent, visited,
                    raisedIn >>

\* line 129, second half: the timestamp is taken and .append runs on the
\* list loaded before, wherever that list is by now
ObsAppend(p) ==
    /\ UNCHANGED pureVars
    /\ opc[p] = "loaded"
    /\ LET o == Classify(ItemType[oitem[p]], Cardinality(accepted) + 1, timestamp(now))
       IN  /\ IF oref[p] = "buf"
                THEN /\ buffer' = [ buffer EXCEPT ![oitem[p]] = Append(@, o) ]
                     /\ UNCHANGED tuples
              ELSE IF oref[p] \in Flushers
                THEN /\ tuples' = [ tuples EXCEPT ![oref[p]] = Append(@, o) ]
                     /\ UNCHANGED buffer
                ELSE UNCHANGED << buffer, tuples >>
           /\ accepted' = accepted \cup { o.uid }
    /\ now' = now + TickMicros
    /\ opc' = [ opc EXCEPT ![p] = "idle" ]
    /\ concurrent' = [ f \in Flushers |->
                         concurrent[f] \/ (InItemSeq(f) /\ Items[it[f]] = oitem[p]) ]
    /\ UNCHANGED << nObs, oitem, oref, ctorVars, dbVars, fdb_lock, buffer_lock,
                    pc, it, k, id, err, drained, visited, raisedIn >>

(* ------------------------------- _dump -------------------------------- *)

\* the list of flusher f stops being read: producers still holding it hold
\* an orphan
Orphaned(f) == [ p \in Producers |->
                   IF opc[p] = "loaded" /\ oref[p] = f THEN "orphan" ELSE oref[p] ]

\* lines 134-138 (and 104-105 for the shutdown thread): _dump is entered; the
\* test of self.connected has an empty body
DumpStart(f) ==
    /\ UNCHANGED pureVars
    /\ ctor = "done"
    /\ pc[f] = "idle"
    /\ f = "timer" => scheduled
    /\ pc' = [ pc EXCEPT ![f] = "for" ]
    /\ it' = [ it EXCEPT ![f] = 1 ]
    /\ visited' = [ visited EXCEPT ![f] = { } ]
    /\ UNCHANGED << ctorVars, obsVars, dbVars, fdb_lock, buffer_lock, buffer,
                    tuples, k, id, err, drained, concurrent, raisedIn >>

\* lines 139-140: next item of the for loop and acquire of the buffer lock,
\* or the end of the loop
DumpFor(f) ==
    /\ UNCHANGED pureVars
    /\ pc[f] = "for"
    /\ IF it[f] > Len(Items)
         THEN /\ pc' = [ pc EXCEPT ![f] = "ret" ]
              /\ UNCHANGED << buffer_lock, visited >>
         ELSE /\ CanAcquire(buffer_lock)
              /\ buffer_lock' = f
              /\ visited' = [ visited EXCEPT ![f] = @ \cup { Items[it[f]] } ]
              /\ pc' = [ pc EXCEPT ![f] = "drain" ]
    /\ UNCHANGED << ctorVars, obsVars, dbVars, fdb_lock, buffer, it, tuples, k, id,
                    err, drained, concurrent, raisedIn >>

\* lines 141-143: tuples = the item's list, a new empty list in its place,
\* release of the buffer lock
DumpDrain(f) ==
    /\ UNCHANGED pureVars
    /\ pc[f] = "drain"
    /\ LET item == Items[it[f]]
       IN  /\ tuples' = [ tuples EXCEPT ![f] = buffer[item] ]
           /\ drained' = [ drained EXCEPT ![f] = buffer[item] ]
           /\ buffer' = ClearBuffer(buffer, item)
           /\ oref' = [ p \in Producers |->
                          IF opc[p] = "loaded" /\ oref[p] = "buf" /\ oitem[p] = item
                            THEN f ELSE oref[p] ]
    /\ buffer_lock' = "free"
    /\ concurrent' = [ concurrent EXCEPT ![f] = FALSE ]
    /\ pc' = [ pc EXCEPT ![f] = "len" ]
    /\ UNCHANGED << ctorVars, dbVars, now, nObs, opc, oitem, accepted, fdb_lock,
                    it, k, id, err, visited, raisedIn >>

\* line 145: if len(tuples)
DumpLen(f) ==
    /\ UNCHANGED pureVars
    /\ pc[f] = "len"
    /\ IF Len(tuples[f]) = 0
         THEN /\ pc' = [ pc EXCEPT ![f] = "for" ]
              /\ it' = [ it EXCEPT ![f] = @ + 1 ]
              /\ oref' = Orphaned(f)
              /\ drained' = [ drained EXCEPT ![f] = << >> ]
              /\ concurrent' = [ concurrent EXCEPT ![f] = FALSE ]
         ELSE /\ pc' = [ pc EXCEPT ![f] = "lock_fdb" ]
              /\ UNCHANGED << it, oref, drained, concurrent >>
    /\ UNCHANGED << ctorVars, dbVars, now, nObs, opc, oitem, accepted, fdb_lock,
                    buffer_lock, buffer, tuples, k, id, err, visited, raisedIn >>

\* line 147: acquire of the connection lock.  Where __init__ returned at the
\* style test the attribute does not exist: the AttributeError is caught at
\* line 177, and the release at line 180 raises it again, out of _dump.
DumpLockFdb(f) ==
    /\ UNCHANGED pureVars
    /\ pc[f] = "lock_fdb"
    /\ IF ~has_lock
         THEN /\ pc' = [ pc EXCEPT ![f] = "raised" ]
              /\ raisedIn' = raisedIn \cup Uids(tuples[f])
              /\ tuples' = [ tuples EXCEPT ![f] = << >> ]
              /\ drained' = [ drained EXCEPT ![f] = << >> ]
              /\ oref' = Orphaned(f)
              /\ concurrent' = [ concurrent EXCEPT ![f] = FALSE ]
              /\ UNCHANGED << fdb_lock, k >>
         ELSE /\ CanAcquire(fdb_lock)
              /\ fdb_lock' = f
              /\ k' = [ k EXCEPT ![f] = 1 ]
              /\ pc' = [ pc EXCEPT ![f] = "resolve" ]
              /\ UNCHANGED << raisedIn, tuples, drained, oref, concurrent >>
    /\ UNCHANGED << ctorVars, dbVars, now, nObs, opc, oitem, accepted, buffer_lock,
                    buffer, it, id, err, visited >>

\* an exception inside the try of lines 146-176: logged at 177-178, then the
\* finally at 179
Raise(f) ==
    /\ err' = [ err EXCEPT ![f] = TRUE ]
    /\ raisedIn' = raisedIn \cup Uids(tuples[f])
    /\ pc' = [ pc EXCEPT ![f] = "release" ]

\* lines 150-159: resolve the id of the item, creating its row when the first
\* SELECT finds none.  failAt names the backend call that raises: 1 the
\* SELECT by name, 2 SELECT MAX, 3 the INSERT, 4 the second SELECT by name;
\* 0 none.
ResolveWith(f, fails) ==
    /\ UNCHANGED pureVars
    /\ pc[f] = "resolve"
    /\ LET name  == Items[it[f]]
           found == SelectId(item_tbl, name)
           newid == NextId(SelectMaxId(item_tbl))
       IN  \E failAt \in fails :
             /\ fdb # "open" => failAt = 1
             /\ ~NotFound(found) => failAt \in { 0, 1 }
             /\ IF failAt = 0
                  THEN /\ IF ~NotFound(found)
                            THEN /\ id' = [ id EXCEPT ![f] = found ]
                                 /\ UNCHANGED item_tbl
                            ELSE /\ item_tbl' = InsertItem(item_tbl, newid, name)
                                 /\ id' = [ id EXCEPT ![f] = SelectId(item_tbl', name) ]
                       /\ pc' = [ pc EXCEPT ![f] = "insert" ]
                       /\ UNCHANGED << err, raisedIn >>
                  ELSE /\ Raise(f)
                       /\ IF failAt = 4
                            THEN item_tbl' = InsertItem(item_tbl, newid, name)
                            ELSE UNCHANGED item_tbl
                       /\ UNCHANGED id
    /\ UNCHANGED << ctorVars, obsVars, log_tbl, item_db, log_db, fdb_lock,
                    buffer_lock, buffer, it, tuples, k, drained, concurrent, visited >>

DumpResolve(f) == ResolveWith(f, 0..4)

\* lines 163-167: one step of `for t in tuples`: the iterator is exhausted,
\* or the INSERT of the next tuple is executed or raises
InsertWith(f, oks) ==
    /\ UNCHANGED pureVars
    /\ pc[f] = "insert"
    /\ IF k[f] > Len(tuples[f])
         THEN /\ pc' = [ pc EXCEPT ![f] = "update" ]
              /\ UNCHANGED << log_tbl, k, err, raisedIn >>
         ELSE \E ok \in oks :
                IF ok
                  THEN /\ log_tbl' = Append(log_tbl, LogRow(tuples[f][k[f]], id[f][1]))
                       /\ k' = [ k EXCEPT ![f] = @ + 1 ]
                       /\ UNCHANGED << pc, err, raisedIn >>
                  ELSE /\ Raise(f)
                       /\ UNCHANGED << log_tbl, k >>
    /\ UNCHANGED << ctorVars, obsVars, item_tbl, item_db, log_db, fdb_lock,
                    buffer_lock, buffer, it, tuples, id, drained, concurrent, visited >>

DumpInsert(f) == InsertWith(f, BOOLEAN)

\* lines 169-174: the snapshot UPDATE with tuples[-1], executed or raising
UpdateWith(f, oks) ==
    /\ UNCHANGED pureVars
    /\ pc[f] = "update"
    /\ \E ok \in oks :
         IF ok
           THEN /\ item_tbl' = UpdateItem(item_tbl, SnapshotOf(tuples[f]), id[f][1])
                /\ pc' = [ pc EXCEPT ![f] = "commit" ]
                /\ UNCHANGED << err, raisedIn >>
           ELSE /\ Raise(f)
                /\ UNCHANGED item_tbl
    /\ UNCHANGED << ctorVars, obsVars, log_tbl, item_db, log_db, fdb_lock,
                    buffer_lock, buffer, it, tuples, k, id, drained, concurrent,
                    visited >>

DumpUpdate(f) == UpdateWith(f, BOOLEAN)

\* line 176: commit, executed or raising
CommitWith(f, oks) ==
    /\ UNCHANGED pureVars
    /\ pc[f] = "commit"
    /\ \E ok \in oks :
         IF ok
           THEN /\ item_db' = item_tbl
                /\ log_db' = log_tbl
                /\ pc' = [ pc EXCEPT ![f] = "release" ]
                /\ UNCHANGED << err, raisedIn >>
           ELSE /\ Raise(f)
                /\ UNCHANGED << item_db, log_db >>
    /\ UNCHANGED << ctorVars, obsVars, item_tbl, log_tbl, fdb_lock, buffer_lock,
                    buffer, it, tuples, k, id, drained, concurrent, visited >>

DumpCommit(f) == CommitWith(f, BOOLEAN)

\* lines 179-180: finally, release of the connection lock; the loop goes on
\* with the next item
DumpRelease(f) ==
    /\ UNCHANGED pureVars
    /\ pc[f] = "release"
    /\ fdb_lock' = "free"
    /\ pc' = [ pc EXCEPT ![f] = "for" ]
    /\ it' = [ it EXCEPT ![f] = @ + 1 ]
    /\ tuples' = [ tuples EXCEPT ![f] = << >> ]
    /\ drained' = [ drained EXCEPT ![f] = << >> ]
    /\ k' = [ k EXCEPT ![f] = 1 ]
    /\ id' = [ id EXCEPT ![f] = None ]
    /\ err' = [ err EXCEPT ![f] = FALSE ]
    /\ oref' = Orphaned(f)
    /\ concurrent' = [ concurrent EXCEPT ![f] = FALSE ]
    /\ UNCHANGED << ctorVars, dbVars, now, nObs, opc, oitem, accepted, buffer_lock,
                    buffer, visited, raisedIn >>

\* _dump returns, or an exception leaves it: the scheduler runs the job again
\* at the next cycle; stop goes on to line 106, or is left by the exception
DumpReturn(f) ==
    /\ UNCHANGED pureVars
    /\ \/ /\ f = "timer"
          /\ pc[f] \in { "ret", "raised" }
          /\ pc' = [ pc EXCEPT ![f] = "idle" ]
       \/ /\ f = "stop"
          /\ pc[f] = "ret"
          /\ pc' = [ pc EXCEPT ![f] = "stop_lock" ]
    /\ it' = [ it EXCEPT ![f] = 1 ]
    /\ visited' = [ visited EXCEPT ![f] = IF f = "timer" THEN { } ELSE @ ]
    /\ UNCHANGED << ctorVars, obsVars, dbVars, fdb_lock, buffer_lock, buffer,
                    tuples, k, id, err, drained, concurrent, raisedIn >>

(* -------------------------------- stop -------------------------------- *)

\* line 106: acquire of the connection lock (AttributeError where it does
\* not exist)
StopLock ==
    /\ UNCHANGED pureVars
    /\ pc["stop"] = "stop_lock"
    /\ IF ~has_lock
         THEN /\ pc' = [ pc EXCEPT !["stop"] = "stop_raised" ]
              /\ UNCHANGED fdb_lock
         ELSE /\ CanAcquire(fdb_lock)
              /\ fdb_lock' = "stop"
              /\ pc' = [ pc EXCEPT !["stop"] = "close" ]
    /\ UNCHANGED << ctorVars, obsVars, dbVars, buffer_lock, buffer, it, tuples, k,
                    id, err, drained, concurrent, visited, raisedIn >>

\* lines 107-110: self._fdb.close(); whatever it raises is swallowed
StopClose ==
    /\ UNCHANGED pureVars
    /\ pc["stop"] = "close"
    /\ \E ok \in BOOLEAN :
         IF ok /\ fdb = "open" THEN fdb' = "closed" ELSE UNCHANGED fdb
    /\ pc' = [ pc EXCEPT !["stop"] = "stop_fin" ]
    /\ UNCHANGED << ctor, setup_i, setup_err, style, connected, has_lock, scheduled, obsVars,
                    dbVars, fdb_lock, buffer_lock, buffer, it, tuples, k, id, err,
                    drained, concurrent, visited, raisedIn >>

\* lines 111-113: finally, connected = False and release
StopFinally ==
    /\ UNCHANGED pureVars
    /\ pc["stop"] = "stop_fin"
    /\ connected' = ConnectedAfterStop(connected)
    /\ fdb_lock' = "free"
    /\ pc' = [ pc EXCEPT !["stop"] = "stopped" ]
    /\ UNCHANGED << ctor, setup_i, setup_err, style, fdb, has_lock, scheduled, obsVars, dbVars,
                    buffer_lock, buffer, it, tuples, k, id, err, drained, concurrent,
                    visited, raisedIn >>

(* --------------------------- specification ---------------------------- *)

Next ==
    \/ CtorStyle
    \/ CtorConnect
    \/ CtorCursor
    \/ CtorSetup
    \/ CtorFinish
    \/ \E p \in Producers : ObsLoad(p)
    \/ \E p \in Producers : ObsAppend(p)
    \/ \E f \in Flushers : DumpStart(f)
    \/ \E f \in Flushers : DumpFor(f)
    \/ \E f \in Flushers : DumpDrain(f)
    \/ \E f \in Flushers : DumpLen(f)
    \/ \E f \in Flushers : DumpLockFdb(f)
    \/ \E f \in Flushers : DumpResolve(f)
    \/ \E f \in Flushers : DumpInsert(f)
    \/ \E f \in Flushers : DumpUpdate(f)
    \/ \E f \in Flushers : DumpCommit(f)
    \/ \E f \in Flushers : DumpRelease(f)
    \/ \E f \in Flushers : DumpReturn(f)
    \/ StopLock
    \/ StopClose
    \/ StopFinally

Spec == Init /\ [][Next]_vars

(* ------------------- a healthy backend and a fair timer --------------- *)

\* the state after an __init__ in which the connect and the schema statements
\* went through (line 91 reached)
LiveInit ==
    /\ ctor = "done"
    /\ setup_i = NumSetup
    /\ setup_err = 0
    /\ style = "qmark"
    /\ connected = TRUE
    /\ fdb = "open"
    /\ has_lock = TRUE
    /\ scheduled = TRUE
    /\ InitRest
    /\ PureIdle

\* the steps of the scheduler's _dump when no backend call raises
TimerHealthy ==
    \/ DumpStart("timer")
    \/ DumpFor("timer")
    \/ DumpDrain("timer")
    \/ DumpLen("timer")
    \/ DumpLockFdb("timer")
    \/ ResolveWith("timer", { 0 })
    \/ InsertWith("timer", { TRUE })
    \/ UpdateWith("timer", { TRUE })
    \/ CommitWith("timer", { TRUE })
    \/ DumpRelease("timer")
    \/ DumpReturn("timer")

ProducerLoad == \E p \in Producers : ObsLoad(p)
ProducerAppend == \E p \in Producers : ObsAppend(p)

LiveNext ==
    \/ ProducerLoad
    \/ ProducerAppend
    \/ TimerHealthy

\* the scheduler runs _dump every cycle and every thread that can take a
\* step eventually takes it
LiveSpec ==
    /\ LiveInit
    /\ [][LiveNext]_vars
    /\ WF_vars(TimerHealthy)
    /\ WF_vars(ProducerAppend)

(* ------------------------------ _format ------------------------------- *)

\* an instance whose __init__ went through; style is given by FormatInit
Constructed ==
    /\ ctor = "done"
    /\ setup_i = NumSetup
    /\ setup_err = 0
    /\ connected = TRUE
    /\ fdb = "open"
    /\ has_lock = TRUE
    /\ scheduled = TRUE
    /\ InitRest

instVars == << ctorVars, obsVars, dbVars, fdb_lock, buffer_lock, buffer, pc, it,
               tuples, k, id, err, drained, concurrent, visited, raisedIn >>

\* the instance has one of the three styles __init__ accepts
FormatInit ==
    /\ Constructed
    /\ style \in styles
    /\ PureIdle

\* _format(stmt) is called (from _execute, line 183)
FormatCall ==
    /\ fmt.pc = "idle"
    /\ \E s \in Stmts : fmt' = [ arg |-> s, stmt |-> s, cnt |-> 1, pc |-> "style" ]
    /\ UNCHANGED << instVars, clk >>

\* lines 200-201: 'qmark', the statement is returned as it is
FormatQmark ==
    /\ fmt.pc = "style"
    /\ style = "qmark"
    /\ fmt' = [ fmt EXCEPT !.pc = "ret" ]
    /\ UNCHANGED << instVars, clk >>

\* lines 202-203: 'format', stmt.replace('?', '%s')
FormatFormat ==
    /\ fmt.pc = "style"
    /\ style = "format"
    /\ fmt' = [ fmt EXCEPT !.stmt = ReplaceAll(@, "?", << "%", "s" >>), !.pc = "ret" ]
    /\ UNCHANGED << instVars, clk >>

\* lines 204-205: 'numeric', cnt = 1
FormatNumeric ==
    /\ fmt.pc = "style"
    /\ style = "numeric"
    /\ fmt' = [ fmt EXCEPT !.cnt = 1, !.pc = "while" ]
    /\ UNCHANGED << instVars, clk >>

\* lines 206-209: one test of the while loop, and its body or the return
FormatWhile ==
    /\ fmt.pc = "while"
    /\ IF Contains(fmt.stmt, "?")
         THEN fmt' = [ fmt EXCEPT
                         !.stmt = ReplaceFirst(@, "?", << ":" >> \o Str(fmt.cnt)),
                         !.cnt = @ + 1 ]
         ELSE fmt' = [ fmt EXCEPT !.pc = "ret" ]
    /\ UNCHANGED << instVars, clk >>

\* the caller has the result
FormatReturn ==
    /\ fmt.pc = "ret"
    /\ fmt' = [ arg |-> << >>, stmt |-> << >>, cnt |-> 1, pc |-> "idle" ]
    /\ UNCHANGED << instVars, clk >>

FormatNext ==
    \/ FormatCall
    \/ FormatQmark
    \/ FormatFormat
    \/ FormatNumeric
    \/ FormatWhile
    \/ FormatReturn

FormatSpec == FormatInit /\ [][FormatNext]_vars

(* ----------------------------- _timestamp ----------------------------- *)

TimeInit ==
    /\ Constructed
    /\ style = "qmark"
    /\ PureIdle

\* _timestamp(dt) is called (line 129) with a host time of s whole seconds
\* and u microseconds; the last two calls are kept
TimeCall ==
    /\ \E s \in 0..MaxSecs, u \in MicroParts :
         LET r == [ s |-> s, u |-> u, t |-> timestamp(s * 1000000 + u) ]
         IN  clk' = IF Len(clk) < 2 THEN Append(clk, r) ELSE << clk[2], r >>
    /\ UNCHANGED << instVars, fmt >>

TimeNext == TimeCall

TimeSpec == TimeInit /\ [][TimeNext]_vars

(* ------------------------- claims: helpers ---------------------------- *)

BufferUids == UNION { Uids(buffer[n]) : n \in ItemSet }

\* the columns (time, val_str, val_num, val_bool) of an observation or log row
Cols(r) == [ time |-> r.time, val_str |-> r.val_str, val_num |-> r.val_num,
             val_bool |-> r.val_bool ]

\* the rows of item whose id is rid
RowsOfId(tbl, rid) == { i \in 1..Len(tbl) : tbl[i].id = rid }

\* __init__ got past the style test and dbapi.connect raised
ConnectFailed == ctor = "done" /\ has_lock /\ fdb = "unset"

(* -------------------------------- C1 ---------------------------------- *)

\* C1: on a connected instance no observation is lost between append and
\* drain, whatever the interleaving of update_item with _dump: every observation
\* whose update_item has returned is still in its item's buffer, or in a list
\* a running _dump has drained and has still to insert, or has its log row
\* (or was drained by a per-item sequence that raised).
C1_NoObservationLost ==
    fdb = "open" =>
    \A u \in accepted :
        \/ u \in BufferUids
        \/ u \in Uids(log_tbl)
        \/ u \in raisedIn
        \/ \E f \in Flushers :
             /\ pc[f] \in { "len", "lock_fdb", "resolve", "insert" }
             /\ u \in Uids(tuples[f])

(* -------------------------------- C2 ---------------------------------- *)

\* C2: no observation is persisted twice: the log holds at most one row per
\* observation, an observation still buffered or still to be inserted by a
\* running _dump has no row yet, and no observation is in the drained lists
\* of two flushes or in a drained list and a buffer at once.
C2_NoDuplicateRow ==
    /\ \A i, j \in 1..Len(log_tbl) : log_tbl[i].uid = log_tbl[j].uid => i = j
    /\ \A i, j \in 1..Len(log_db) : log_db[i].uid = log_db[j].uid => i = j
    /\ BufferUids \cap Uids(log_tbl) = { }
    /\ \A f \in Flushers :
         /\ Uids(tuples[f]) \cap BufferUids = { }
         /\ \A g \in Flushers \ { f } : Uids(tuples[f]) \cap Uids(tuples[g]) = { }
         /\ pc[f] \in { "len", "lock_fdb", "resolve", "insert" } =>
              \A i \in 1..Len(tuples[f]) :
                  (pc[f] # "insert" \/ i >= k[f]) =>
                      tuples[f][i].uid \notin Uids(log_tbl)

\* C2 witness: the timer's _dump and the _dump of stop overlap, each with a
\* drained observation, and one of them already has its log row
C2_Witness ==
    /\ pc["timer"] = "insert" /\ k["timer"] = 2
    /\ pc["stop"] = "lock_fdb" /\ Len(tuples["stop"]) = 1
    /\ Len(log_tbl) = 1

(* -------------------------------- C3 ---------------------------------- *)

\* C3: when a backend step of an item's sequence raises, the item's buffer is
\* empty after it and nothing of the drained observations is persisted: no log
\* row of theirs is ever committed.
C3_FailedItemNotPersisted ==
    /\ \A u \in raisedIn : u \notin Uids(log_db)
    /\ \A f \in Flushers :
         pc[f] = "release" /\ err[f] /\ ~concurrent[f] => buffer[Items[it[f]]] = << >>

(* -------------------------------- C4 ---------------------------------- *)

\* what a per-item sequence that did not raise leaves at its release: a log
\* row for every drained observation and the snapshot, all committed
SequenceDone(f) ==
    /\ Uids(drained[f]) \subseteq Uids(log_db)
    /\ log_db = log_tbl
    /\ item_db = item_tbl
    /\ \E i \in 1..Len(item_db) :
         /\ item_db[i].name = Items[it[f]]
         /\ item_db[i].id = id[f][1]
         /\ item_db[i].snap # << >>

\* C4: per-item failure isolation: whatever raised for an item, _dump goes on
\* with every remaining item (it ends only after the turn of each item), and
\* each sequence that did not raise has its rows inserted, its snapshot
\* updated and its transaction committed.
C4_FailureIsolation ==
    \A f \in Flushers :
        /\ pc[f] \in { "ret", "raised" } => visited[f] = ItemSet
        /\ pc[f] = "release" /\ ~err[f] => SequenceDone(f)

\* C4 for the instances whose __init__ got past the style test
C4_IsolationPastStyleTest ==
    has_lock => C4_FailureIsolation

(* -------------------------------- C5 ---------------------------------- *)

\* C5: after a failed initial connect, connected stays false and every flush
\* is a no-op: no buffer is drained, so every observation taken stays in its
\* buffer, and no backend statement changes the tables.
C5_ConnectFailedFlushNoop ==
    ConnectFailed =>
        /\ ~connected
        /\ \A u \in accepted : u \in BufferUids
        /\ \A f \in Flushers : tuples[f] = << >>
        /\ item_tbl = << >> /\ log_tbl = << >>

(* -------------------------------- C6 ---------------------------------- *)

\* C6: with a healthy backend and _dump run again and again, every observation
\* taken by update_item eventually has a committed row in log.
C6_EventuallyCommitted ==
    \A u \in 1..MaxObs : (u \in accepted) ~> (u \in Uids(log_db))

(* -------------------------------- C7 ---------------------------------- *)

C7_State ==
    /\ \A i, j \in 1..Len(item_tbl) : item_tbl[i].name = item_tbl[j].name => i = j
    /\ \A i, j \in 1..Len(item_db) : item_db[i].name = item_db[j].name => i = j
    /\ \A f \in Flushers :
         pc[f] \in { "insert", "update", "commit" } =>
             \E i \in 1..Len(item_tbl) :
                 item_tbl[i].name = Items[it[f]] /\ id[f] = << item_tbl[i].id >>

C7_Step ==
    \A i \in 1..Len(item_tbl) :
        /\ Len(item_tbl') >= Len(item_tbl)
        /\ item_tbl'[i].name = item_tbl[i].name
        /\ item_tbl'[i].id = item_tbl[i].id

\* C7: id stability: the item table never holds two rows with one name, the
\* id a flush resolves for a name is the id of that name's row, and a row,
\* once there, keeps its name and its id through every later step.
C7_IdStability == [] C7_State /\ [][C7_Step]_vars

\* C7 witness: a per-item sequence has resolved the id of a name whose row an
\* earlier sequence created (the log already holds a row with that id)
C7_Witness ==
    \E f \in Flushers :
        /\ pc[f] = "insert" /\ k[f] = 1
        /\ Len(item_tbl) = 1
        /\ Len(log_tbl) >= 1
        /\ << log_tbl[1].item_id >> = id[f]

(* -------------------------------- C8 ---------------------------------- *)

C8_State ==
    \A i, j \in 1..Len(item_tbl) : item_tbl[i].id = item_tbl[j].id => i = j

C8_Step ==
    Len(item_tbl') > Len(item_tbl) =>
        LET n == Len(item_tbl)
        IN  /\ Len(item_tbl') = n + 1
            /\ n = 0 => item_tbl'[1].id = 1
            /\ \A i \in 1..n :
                 /\ item_tbl'[n + 1].id > item_tbl[i].id
                 /\ \E j \in 1..n : item_tbl'[n + 1].id = item_tbl[j].id + 1

\* C8: id allocation: a new item row gets id 1 in an empty table and
\* max(id)+1 otherwise, so the ids of the table are pairwise distinct and a
\* new id is greater than every id present when it was allocated.
C8_IdAllocation == [] C8_State /\ [][C8_Step]_vars

\* C8 witness: both cases of the allocation have happened
C8_Witness ==
    /\ Len(item_tbl) = 2
    /\ item_tbl[1].id = 1
    /\ item_tbl[2].id = 2

(* -------------------------------- C9 ---------------------------------- *)

C9_State ==
    \A f \in Flushers :
        pc[f] = "release" /\ fdb = "open" /\ ~err[f] /\ ~concurrent[f] =>
            LET n == Len(drained[f])
                m == Len(log_tbl)
                name == Items[it[f]]
            IN  /\ n >= 1
                /\ m >= n
                /\ \E r \in 1..Len(item_tbl) :
                     /\ item_tbl[r].name = name
                     /\ \A i \in 1..n :
                          log_tbl[m - n + i] =
                              [ uid |-> drained[f][i].uid,
                                time |-> drained[f][i].time,
                                item_id |-> item_tbl[r].id,
                                val_str |-> drained[f][i].val_str,
                                val_num |-> drained[f][i].val_num,
                                val_bool |-> drained[f][i].val_bool ]
                /\ \A j \in 1..(m - n) : log_tbl[j].uid \notin Uids(drained[f])
                /\ log_db = log_tbl
                /\ buffer[name] = << >>

C9_Step ==
    (item_tbl' # item_tbl \/ log_tbl' # log_tbl) =>
        \E f \in Flushers :
            /\ pc[f] \in { "resolve", "insert", "update" }
            /\ Len(tuples[f]) >= 1

\* C9: flush postcondition with a healthy backend: a sequence in which no call
\* raised and no update_item ran for its item has added exactly one log row
\* per drained observation, in the order of the appends, each with the item's
\* id and the observation's columns, has committed them and leaves the buffer
\* empty; the tables are written only for an item whose drained list is not
\* empty.
C9_FlushPostcondition == [] C9_State /\ [][C9_Step]_vars

\* C9 witness: a sequence that drained two observations is through its commit
C9_Witness ==
    \E f \in Flushers :
        /\ pc[f] = "release" /\ fdb = "open" /\ ~err[f] /\ ~concurrent[f]
        /\ Len(drained[f]) = 2
        /\ Len(log_db) = 2

(* -------------------------------- C10 --------------------------------- *)

SnapshotIsLastLogRow(f) ==
    LET last == log_db[Len(log_db)]
    IN  /\ last.item_id = id[f][1]
        /\ \A i \in RowsOfId(item_db, id[f][1]) : item_db[i].snap = << Cols(last) >>

\* C10: at every commit the snapshot of the item equals the last log row
\* inserted for the item in that flush, also with update_item running
\* concurrently.
C10_SnapshotIsLastLogRow ==
    \A f \in Flushers : pc[f] = "release" /\ ~err[f] => SnapshotIsLastLogRow(f)

\* C10 for the sequences during which no update_item appended for the item
C10_WithoutConcurrentObserve ==
    \A f \in Flushers :
        pc[f] = "release" /\ ~err[f] /\ ~concurrent[f] => SnapshotIsLastLogRow(f)

(* -------------------------------- C11 --------------------------------- *)

\* the positions at which a thread calls the backend connection: cursor(),
\* execute(), commit() in _dump, close() in stop
UsesBackend(f) == pc[f] \in { "resolve", "insert", "update", "commit", "close" }

\* C11: the backend connection is never used outside the connection lock:
\* in every reachable state a thread that is about to open a cursor, execute
\* a statement, commit or close (in the schema setup of __init__, in _dump and
\* in stop) holds _fdb_lock.
C11_BackendUnderLock ==
    /\ ctor \in { "cursor", "setup", "finish" } => fdb_lock = "ctor"
    /\ \A f \in Flushers : UsesBackend(f) => fdb_lock = f

\* stop closes under the lock while the scheduler's _dump waits for it with a
\* drained list
C11_Witness ==
    /\ pc["stop"] = "close"
    /\ fdb_lock = "stop"
    /\ pc["timer"] = "lock_fdb"
    /\ Len(tuples["timer"]) > 0

(* -------------------------------- C12 --------------------------------- *)

\* f is inside a per-item sequence: between the acquire of line 147 and the
\* release of line 180
InSequence(f) == pc[f] \in { "resolve", "insert", "update", "commit", "release" }

C12_State ==
    /\ ~(InSequence("timer") /\ InSequence("stop"))
    /\ pc["stop"] \in { "close", "stop_fin" } => ~InSequence("timer")

\* while f is inside a sequence, every change of the tables is a step of f,
\* and the connection is not closed
C12_Step ==
    \A f \in Flushers :
        InSequence(f) =>
            /\ dbVars' # dbVars => pc'[f] # pc[f] \/ k'[f] # k[f]
            /\ fdb' = fdb

\* C12: overlapping flushes are serialized: at most one _dump is inside a
\* per-item resolve+insert+update+commit sequence at any moment, the steps of
\* two sequences never interleave, and the connection is never closed in the
\* middle of a sequence.
C12_FlushesSerialized == []C12_State /\ [][C12_Step]_vars

\* the scheduler's _dump has inserted a row and the shutdown flush waits for
\* the connection lock with a drained list of its own
C12_Witness ==
    /\ pc["timer"] = "insert"
    /\ k["timer"] > 1
    /\ pc["stop"] = "lock_fdb"
    /\ Len(tuples["stop"]) > 0

(* -------------------------------- C13 --------------------------------- *)

C13_State ==
    /\ pc["stop"] \in { "stop_lock", "close", "stop_fin", "stopped" } =>
            visited["stop"] = ItemSet /\ tuples["stop"] = << >>
    /\ pc["stop"] = "close" => fdb_lock = "stop"
    /\ pc["stop"] = "stopped" => ~connected /\ fdb_lock # "stop"

\* the connection is closed by stop only, after its flush
C13_Step ==
    fdb' # fdb /\ fdb = "open" =>
        pc["stop"] = "close" /\ fdb_lock = "stop" /\ visited["stop"] = ItemSet

\* C13: shutdown ordering: stop runs one final _dump over every item before
\* it closes the connection, closes holding _fdb_lock, and when stop has
\* returned connected is False and _fdb_lock is released, also when close
\* raised.
C13_ShutdownOrdering == []C13_State /\ [][C13_Step]_vars

\* stop has returned on an instance that was connected, and its close raised
C13_Witness ==
    /\ pc["stop"] = "stopped"
    /\ fdb = "open"
    /\ ~connected
    /\ fdb_lock = "free"

(* -------------------------------- C14 --------------------------------- *)

\* C14: flush errors never propagate to the caller: _dump returns normally
\* in every state an instance can be in after construction and whatever
\* backend call fails, so no _dump is ever left by an exception.
C14_FlushNeverRaises ==
    \A f \in Flushers : pc[f] # "raised"

(* -------------------------------- C15 --------------------------------- *)

C15_State ==
    ctor = "finish" => setup_i = NumSetup /\ connected /\ fdb_lock = "ctor"

C15_Step ==
    /\ ctor = "setup" => ctor' \in { "setup", "finish" }
    /\ ctor = "setup" /\ ctor' = "finish" => setup_i = NumSetup
    /\ ctor = "finish" /\ ctor' = "done" =>
            setup_i' = NumSetup /\ connected' /\ fdb_lock' = "free"

\* C15: schema setup tolerates per-statement failure: after a successful
\* connect the four statements of _setup are all attempted whatever the
\* outcome of the earlier ones, no failure of a statement leaves __init__ by
\* an exception, and when __init__ returns connected is True and _fdb_lock is
\* released; also when all four statements fail (second run against the same
\* database).
C15_SetupTolerant == []C15_State /\ [][C15_Step]_vars

\* all four schema statements raised and __init__ is past the loop
C15_Witness ==
    /\ ctor = "finish"
    /\ setup_i = NumSetup
    /\ setup_err = NumSetup

(* -------------------------------- C16 --------------------------------- *)

\* C16: update_item appends under the buffer lock: between its read of the
\* item's list from _buffer and its append the calling thread holds
\* _buffer_lock (stated for connected instances).
C16_AppendUnderBufferLock ==
    fdb = "open" =>
        \A p \in Producers : opc[p] = "loaded" => buffer_lock = p

(* -------------------------------- C17 --------------------------------- *)

\* the append of producer p completes in this step
Appends(p) == opc[p] = "loaded" /\ opc'[p] = "idle"

\* what update_item leaves alone on the backend side: the tables, the
\* connection, connected, the connection lock and the other items' buffers
C17_BackendUntouched ==
    [][ \A p \in Producers :
          Appends(p) =>
            /\ UNCHANGED << dbVars, fdb, connected, fdb_lock >>
            /\ \A n \in ItemSet \ { oitem[p] } : buffer'[n] = buffer[n] ]_vars

\* C17: an update_item call changes only the buffer of its own item, by
\* appending one observation at its end: the tables, the connection,
\* connected, the connection lock, every other item's buffer and the lists
\* a running _dump has drained are unchanged (stated for connected
\* instances).
C17_ObserveFrame ==
    [][ \A p \in Producers :
          Appends(p) /\ fdb = "open" =>
            /\ UNCHANGED << dbVars, fdb, connected, fdb_lock, tuples >>
            /\ \A n \in ItemSet \ { oitem[p] } : buffer'[n] = buffer[n]
            /\ Len(buffer'[oitem[p]]) = Len(buffer[oitem[p]]) + 1
            /\ SubSeq(buffer'[oitem[p]], 1, Len(buffer[oitem[p]])) = buffer[oitem[p]]
      ]_vars

(* -------------------------------- C20 --------------------------------- *)

\* the thread is not inside __init__, _dump or stop
Finished(f) == pc[f] \in { "idle", "ret", "raised", "stop_lock", "stopped",
                           "stop_raised" }

\* C20: lock discipline: no thread holds _buffer_lock and _fdb_lock at the
\* same time, and every acquire is paired with a release on every path: when
\* __init__, _dump or stop has finished, normally or by an exception of a
\* backend call, it holds neither lock.
C20_LockDiscipline ==
    /\ \A f \in Flushers : ~(buffer_lock = f /\ fdb_lock = f)
    /\ ctor \in { "done", "raised" } => fdb_lock # "ctor"
    /\ \A f \in Flushers : Finished(f) => buffer_lock # f /\ fdb_lock # f

\* C20 without the path on which __init__ is left by an exception
C20_OutsideConstructor ==
    /\ \A f \in Flushers : ~(buffer_lock = f /\ fdb_lock = f)
    /\ ctor = "done" => fdb_lock # "ctor"
    /\ \A f \in Flushers : Finished(f) => buffer_lock # f /\ fdb_lock # f

(* -------------------------------- C18 --------------------------------- *)

\* what stands for the n-th placeholder in each style
Marker(sty, n) ==
    CASE sty = "qmark" -> << "?" >>
      [] sty = "format" -> << "%", "s" >>
      [] sty = "numeric" -> << ":" >> \o Str(n)

\* s read once from the left, its placeholders numbered from n and replaced
\* by their markers, every other character kept
RECURSIVE Marked(_, _, _)
Marked(s, n, sty) ==
    IF s = << >> THEN << >>
    ELSE IF Head(s) = "?"
           THEN Marker(sty, n) \o Marked(Tail(s), n + 1, sty)
           ELSE << Head(s) >> \o Marked(Tail(s), n, sty)

Placeholders(s) == Cardinality({ i \in 1..Len(s) : s[i] = "?" })

\* C18: statement formatting: 'qmark' returns the statement unchanged,
\* 'format' replaces every '?' by '%s', 'numeric' replaces the k-th '?' from
\* the left by ':k'; the text between the placeholders and their number and
\* order are unchanged, and the result of 'format' and 'numeric' has no '?'.
C18_FormatResult ==
    fmt.pc = "ret" =>
        /\ fmt.stmt = Marked(fmt.arg, 1, style)
        /\ style = "qmark" => fmt.stmt = fmt.arg
        /\ style # "qmark" => ~Contains(fmt.stmt, "?")
        /\ style = "numeric" => fmt.cnt = Placeholders(fmt.arg) + 1

\* 'numeric' has returned a statement of ten placeholders: the first is
\* ':1', the tenth ':10'
C18_Witness ==
    /\ fmt.pc = "ret"
    /\ style = "numeric"
    /\ fmt.cnt = 11
    /\ SubSeq(fmt.stmt, 1, 2) = << ":", "1" >>
    /\ SubSeq(fmt.stmt, Len(fmt.stmt) - 2, Len(fmt.stmt)) = << ":", "1", "0" >>

(* -------------------------------- C19 --------------------------------- *)

\* the host time of r is not after the host time of q
NotAfter(r, q) == r.s < q.s \/ (r.s = q.s /\ r.u <= q.u)

\* C19: timestamp encoding: a host time of s whole seconds and u microseconds
\* is stamped s*1000 + floor(u/1000), which is in [s*1000, s*1000+999], and
\* the stamps are non-decreasing when the host times are.
C19_TimestampEncoding ==
    /\ \A i \in 1..Len(clk) :
         /\ clk[i].t = clk[i].s * 1000 + (clk[i].u \div 1000)
         /\ clk[i].t >= clk[i].s * 1000
         /\ clk[i].t <= clk[i].s * 1000 + 999
    /\ \A i, j \in 1..Len(clk) :
         NotAfter(clk[i], clk[j]) => clk[i].t <= clk[j].t

\* two calls one microsecond apart across a second: the stamps are one
\* millisecond apart
C19_Witness ==
    /\ Len(clk) = 2
    /\ clk[1].u = 999999
    /\ clk[2].s = clk[1].s + 1
    /\ clk[2].u = 0
    /\ clk[2].t = clk[1].t + 1

=============================================================================
